---- MODULE Spec2Model ----
(***************************************************************************)
(* sshuttle "nat" firewall method (sshuttle/methods/nat.py).               *)
(*                                                                         *)
(* The host firewall is the shared state: the user chains of the nat       *)
(* table, the built-in nat OUTPUT and PREROUTING lists and the mangle      *)
(* OUTPUT list.  Every sshuttle instance is a process that calls           *)
(* setup_firewall / restore_firewall; each backend command (one iptables   *)
(* or conntrack invocation) is one atomic step, so that instances          *)
(* interleave command by command and a run can be interrupted between any  *)
(* two commands.                                                           *)
(***************************************************************************)
EXTENDS Integers, Sequences, FiniteSets, TLC

(* ---------------------------------------------------------------- bounds *)
\* number of address bits of the modelled IPv4 address space
AddrBits == 4
\* number of environmental command failures a behaviour may contain
MaxFaults == 1

(* ------------------------------------------------------------- constants *)
AF_INET == 2
AF_INET6 == 10
TTL_SENTINEL == 63
DNS_PORT == 53
LLMNR_PORT == 5355

\* the instances (processes) of the host
Procs == {1, 2}

RECURSIVE Pow2(_)
Pow2(n) == IF n = 0 THEN 1 ELSE 2 * Pow2(n - 1)

\* the model's image of 224.0.0.252: the address 1110 followed by zeros
LLMNR_ADDR == 14 * Pow2(AddrBits - 4)
\* the prefix length of a host route ("/32")
HostWidth == AddrBits

\* user = None is the empty tuple, user = uid is <<uid>>
None == <<>>

(* ------------------------------------------------------------ the inputs *)
\* subnet entries are the tuples the caller passes:
\* (family, width, exclude, net, fport, lport)
IncHalf == <<AF_INET, 1, FALSE, 8 * Pow2(AddrBits - 4), 0, 0>>
IncAll == <<AF_INET, 0, FALSE, 0, 0, 0>>
IncHost == <<AF_INET, HostWidth, FALSE, 9 * Pow2(AddrBits - 4), 0, 0>>
IncPorts == <<AF_INET, 1, FALSE, 8 * Pow2(AddrBits - 4), 1000, 2000>>
ExcQuarter == <<AF_INET, 2, TRUE, 8 * Pow2(AddrBits - 4), 0, 0>>
ExcPorts == <<AF_INET, 2, TRUE, 8 * Pow2(AddrBits - 4), 1000, 2000>>
ExcZeroFirst == <<AF_INET, 2, TRUE, 8 * Pow2(AddrBits - 4), 0, 2000>>

SubnetLists ==
    { <<>>,
      <<IncHalf>>,
      <<IncHalf, ExcQuarter>>,
      <<ExcQuarter, IncHalf>>,
      <<IncAll, ExcPorts>>,
      <<IncPorts, ExcQuarter>>,
      <<IncHost, ExcQuarter, IncHalf>>,
      <<ExcZeroFirst, IncAll>> }

\* nameserver entries are (family, ip)
NsLists ==
    { <<>>,
      << <<AF_INET, 1>> >>,
      << <<AF_INET6, 2>>, <<AF_INET, 3>> >>,
      << <<AF_INET, 3>>, <<AF_INET6, 2>>, <<AF_INET, 1>> >> }

Users == {None, <<1000>>}

\* the small inputs used when two instances run concurrently
ConcSubnetLists == { <<IncHalf>> }
ConcNsLists == { <<>> }

PortOf(p) == 12300 + 100 * p

Policies(p, nss, subs) ==
    [port : {PortOf(p)}, dnsport : {PortOf(p) + 1}, nslist : nss,
     subnets : subs, user : Users]

VARIABLES
    natChains,      \* nat table: user chain name -> its rule sequence
    natOutput,      \* nat table, built-in OUTPUT list
    natPrerouting,  \* nat table, built-in PREROUTING list
    mangleOutput,   \* mangle table, built-in OUTPUT list
    policy,         \* per instance: the policy it sets up and restores
    pc,             \* per instance: "idle", "query", "restore" or "setup"
    idx,            \* per instance: index of the next command of the phase
    call,           \* per instance: the current (or last) call
    family,         \* per instance: the family argument of that call
    udp,            \* per instance: the udp argument of that call
    result,         \* per instance: the outcome of that call
    ncmd,           \* per instance: backend commands issued by that call
    prev,           \* per instance: <<call, result, ncmd>> of the call before
    since,          \* per instance: instances installed and quiet since
                    \* the current call started
    faults          \* environmental command failures still to come

fwvars == <<natChains, natOutput, natPrerouting, mangleOutput>>
procvars == <<pc, idx, call, family, udp, result, ncmd, prev>>
vars == <<natChains, natOutput, natPrerouting, mangleOutput, policy, pc, idx,
          call, family, udp, result, ncmd, prev, since, faults>>

(* ------------------------------------------------------------- the rules *)
\* variant: one chain name for every port
ChainNameShared(port) == <<"sshuttle-", 0>>

\* chain = 'sshuttle-%s' % port
ChainName(port) == <<"sshuttle-", port>>

\* a rule of a user chain: the match fields and the action of its arguments
ChainRule(target, ttl, dstType, dest, proto, dports, toPorts) ==
    [target |-> target, ttl |-> ttl, dstType |-> dstType, dest |-> dest,
     proto |-> proto, dports |-> dports, toPorts |-> toPorts]

\* variant: the TTL rule matches the default TTL instead of the sentinel
TtlReturnWrongTtl == ChainRule("RETURN", 64, "", <<>>, "", <<>>, 0)

\* '-j', 'RETURN', '-m', 'ttl', '--ttl', '63'
TtlReturn == ChainRule("RETURN", TTL_SENTINEL, "", <<>>, "", <<>>, 0)

\* '-j', 'REDIRECT', '--dest', '%s/32' % ip, '-p', 'udp', '--dport', '53',
\* '--to-ports', str(dnsport)
DnsRedirect(ip, dnsport) ==
    ChainRule("REDIRECT", 0, "", <<ip, HostWidth>>, "udp",
              <<DNS_PORT, DNS_PORT>>, dnsport)

\* '-j', 'RETURN', '-m', 'addrtype', '--dst-type', 'LOCAL'
LocalReturn == ChainRule("RETURN", 0, "LOCAL", <<>>, "", <<>>, 0)

\* variant: the port range is always added
TcpPortsAlways(fport, lport) == <<fport, lport>>

\* tcp_ports = ('-p', 'tcp') [+ ('--dport', '%d:%d' % (fport, lport))]
TcpPorts(fport, lport) == IF fport # 0 THEN <<fport, lport>> ELSE <<>>

SubnetRule(s, port) ==
    IF s[3]
    THEN ChainRule("RETURN", 0, "", <<s[4], s[2]>>, "tcp",
                   TcpPorts(s[5], s[6]), 0)
    ELSE ChainRule("REDIRECT", 0, "", <<s[4], s[2]>>, "tcp",
                   TcpPorts(s[5], s[6]), port)

\* '-j', 'REDIRECT', '--dest', '224.0.0.252/32', '-p', 'udp',
\* '--dport', '5355', '--to-ports', str(dnsport)
LlmnrRedirect(dnsport) ==
    ChainRule("REDIRECT", 0, "", <<LLMNR_ADDR, HostWidth>>, "udp",
              <<LLMNR_PORT, LLMNR_PORT>>, dnsport)

(* ------------------------------------------- the compiled command lists *)
\* the sort key of a subnet entry: more specific networks (longer prefix)
\* rank higher, and at equal width an exclusion ranks above an inclusion
subnet_weight(s) == <<s[2], s[3]>>

\* tuple comparison of two weights
WeightLess(a, b) == \/ a[1] < b[1]
                    \/ a[1] = b[1] /\ ~a[2] /\ b[2]

\* insert x behind every entry that does not weigh less (stable)
RECURSIVE InsertDesc(_, _)
InsertDesc(sorted, x) ==
    IF sorted = <<>> THEN <<x>>
    ELSE IF WeightLess(subnet_weight(Head(sorted)), subnet_weight(x))
         THEN <<x>> \o sorted
         ELSE <<Head(sorted)>> \o InsertDesc(Tail(sorted), x)

RECURSIVE SortDesc(_)
SortDesc(subnets) ==
    IF subnets = <<>> THEN <<>>
    ELSE InsertDesc(SortDesc(SubSeq(subnets, 1, Len(subnets) - 1)),
                    subnets[Len(subnets)])

\* variant: the subnet entries are taken in the caller's order
SortedSubnetsAsGiven(subnets) == subnets

\* sorted(subnets, key=subnet_weight, reverse=True)
SortedSubnets(subnets) == SortDesc(subnets)

\* variant: the nameserver list is not filtered by family
MatchingNsAll(nslist, fam) == nslist

\* [i for i in nslist if i[0] == family]
RECURSIVE MatchingNs(_, _)
MatchingNs(nslist, fam) ==
    IF nslist = <<>> THEN <<>>
    ELSE IF Head(nslist)[1] = fam
         THEN <<Head(nslist)>> \o MatchingNs(Tail(nslist), fam)
         ELSE MatchingNs(Tail(nslist), fam)

DnsRules(pol, fam) ==
    LET ns == MatchingNs(pol.nslist, fam)
    IN  [i \in 1..Len(ns) |-> DnsRedirect(ns[i][2], pol.dnsport)]

SubnetRules(pol) ==
    LET ss == SortedSubnets(pol.subnets)
    IN  [i \in 1..Len(ss) |-> SubnetRule(ss[i], pol.port)]

\* variant: the LOCAL rule is appended before the DNS rules
ChainBodyLocalFirst(pol, fam) ==
    <<TtlReturn>> \o <<LocalReturn>> \o DnsRules(pol, fam)
    \o SubnetRules(pol) \o <<LlmnrRedirect(pol.dnsport)>>

\* variant: the LOCAL rule is appended behind the subnet rules
ChainBodyLocalLast(pol, fam) ==
    <<TtlReturn>> \o DnsRules(pol, fam)
    \o SubnetRules(pol) \o <<LocalReturn>> \o <<LlmnrRedirect(pol.dnsport)>>

\* the rules setup_firewall appends to the chain, in the order it appends
ChainBody(pol, fam) ==
    <<TtlReturn>> \o DnsRules(pol, fam) \o <<LocalReturn>>
    \o SubnetRules(pol) \o <<LlmnrRedirect(pol.dnsport)>>

\* one backend command; fatal is FALSE when its failure is swallowed
Cmd(op, table, builtin, chain, rule, fatal) ==
    [op |-> op, table |-> table, builtin |-> builtin, chain |-> chain,
     rule |-> rule, fatal |-> fatal]

\* '-m', 'owner', '--uid-owner', str(user), '-j', 'MARK', '--set-mark',
\* str(port)
MarkRule(pol) == [uid |-> pol.user[1], setmark |-> pol.port]

\* variant: the entry rules never match on the mark
EntryArgsNoMark(pol) == [mark |-> <<>>, jump |-> ChainName(pol.port)]

\* args = '-m', 'mark', '--mark', str(port), '-j', chain   or   '-j', chain
EntryArgs(pol) ==
    [mark |-> IF pol.user # None THEN <<pol.port>> ELSE <<>>,
     jump |-> ChainName(pol.port)]

\* variant: restore_firewall deletes the chain before the entry rules
RestoreCmdsDeleteFirst(pol) ==
    LET chain == ChainName(pol.port)
    IN  (IF pol.user # None
         THEN <<Cmd("D", "mangle", "OUTPUT", <<>>, MarkRule(pol), FALSE)>>
         ELSE <<>>)
        \o <<Cmd("F", "nat", "", chain, <<>>, FALSE),
             Cmd("X", "nat", "", chain, <<>>, TRUE),
             Cmd("D", "nat", "OUTPUT", <<>>, EntryArgs(pol), FALSE),
             Cmd("D", "nat", "PREROUTING", <<>>, EntryArgs(pol), FALSE)>>

\* variant: restore_firewall leaves the MARK rule alone
RestoreCmdsKeepMark(pol) ==
    LET chain == ChainName(pol.port)
    IN  <<Cmd("D", "nat", "OUTPUT", <<>>, EntryArgs(pol), FALSE),
          Cmd("D", "nat", "PREROUTING", <<>>, EntryArgs(pol), FALSE),
          Cmd("F", "nat", "", chain, <<>>, FALSE),
          Cmd("X", "nat", "", chain, <<>>, TRUE)>>

\* variant: restore_firewall removes the entry rules without the mark match
RestoreCmdsPlainArgs(pol) ==
    LET chain == ChainName(pol.port)
        args == [mark |-> <<>>, jump |-> chain]
    IN  (IF pol.user # None
         THEN <<Cmd("D", "mangle", "OUTPUT", <<>>, MarkRule(pol), FALSE)>>
         ELSE <<>>)
        \o <<Cmd("D", "nat", "OUTPUT", <<>>, args, FALSE),
             Cmd("D", "nat", "PREROUTING", <<>>, args, FALSE),
             Cmd("F", "nat", "", chain, <<>>, FALSE),
             Cmd("X", "nat", "", chain, <<>>, TRUE)>>

\* variant: the chain flush of restore_firewall is not wrapped in nonfatal
RestoreCmdsFatalFlush(pol) ==
    LET chain == ChainName(pol.port)
    IN  (IF pol.user # None
         THEN <<Cmd("D", "mangle", "OUTPUT", <<>>, MarkRule(pol), FALSE)>>
         ELSE <<>>)
        \o <<Cmd("D", "nat", "OUTPUT", <<>>, EntryArgs(pol), FALSE),
             Cmd("D", "nat", "PREROUTING", <<>>, EntryArgs(pol), FALSE),
             Cmd("F", "nat", "", chain, <<>>, TRUE),
             Cmd("X", "nat", "", chain, <<>>, TRUE)>>

\* variant: the rule removals of restore_firewall are not wrapped in nonfatal
RestoreCmdsFatalRemovals(pol) ==
    LET chain == ChainName(pol.port)
    IN  (IF pol.user # None
         THEN <<Cmd("D", "mangle", "OUTPUT", <<>>, MarkRule(pol), TRUE)>>
         ELSE <<>>)
        \o <<Cmd("D", "nat", "OUTPUT", <<>>, EntryArgs(pol), TRUE),
             Cmd("D", "nat", "PREROUTING", <<>>, EntryArgs(pol), TRUE),
             Cmd("F", "nat", "", chain, <<>>, FALSE),
             Cmd("X", "nat", "", chain, <<>>, TRUE)>>

\* the commands of restore_firewall once the chain is known to exist
RestoreCmds(pol) ==
    LET chain == ChainName(pol.port)
    IN  (IF pol.user # None
         THEN <<Cmd("D", "mangle", "OUTPUT", <<>>, MarkRule(pol), FALSE)>>
         ELSE <<>>)
        \o <<Cmd("D", "nat", "OUTPUT", <<>>, EntryArgs(pol), FALSE),
             Cmd("D", "nat", "PREROUTING", <<>>, EntryArgs(pol), FALSE),
             Cmd("F", "nat", "", chain, <<>>, FALSE),
             Cmd("X", "nat", "", chain, <<>>, TRUE)>>

\* variant: the entry rules are appended ('-A') instead of inserted at 1
SetupCmdsAppendEntries(pol, fam) ==
    LET chain == ChainName(pol.port)
        body == ChainBody(pol, fam)
    IN  <<Cmd("N", "nat", "", chain, <<>>, TRUE),
          Cmd("F", "nat", "", chain, <<>>, TRUE)>>
        \o (IF pol.user # None
            THEN <<Cmd("I", "mangle", "OUTPUT", <<>>, MarkRule(pol), TRUE)>>
            ELSE <<>>)
        \o <<Cmd("A", "nat", "OUTPUT", <<>>, EntryArgs(pol), TRUE),
             Cmd("A", "nat", "PREROUTING", <<>>, EntryArgs(pol), TRUE)>>
        \o [i \in 1..Len(body) |->
               Cmd("A", "nat", "", chain, body[i], TRUE)]
        \o <<Cmd("conntrack", "", "", <<>>, <<>>, FALSE)>>

\* variant: a failing rule append does not stop setup_firewall
SetupCmdsNonfatalAppends(pol, fam) ==
    LET chain == ChainName(pol.port)
        body == ChainBody(pol, fam)
    IN  <<Cmd("N", "nat", "", chain, <<>>, TRUE),
          Cmd("F", "nat", "", chain, <<>>, TRUE)>>
        \o (IF pol.user # None
            THEN <<Cmd("I", "mangle", "OUTPUT", <<>>, MarkRule(pol), TRUE)>>
            ELSE <<>>)
        \o <<Cmd("I", "nat", "OUTPUT", <<>>, EntryArgs(pol), TRUE),
             Cmd("I", "nat", "PREROUTING", <<>>, EntryArgs(pol), TRUE)>>
        \o [i \in 1..Len(body) |->
               Cmd("A", "nat", "", chain, body[i], FALSE)]
        \o <<Cmd("conntrack", "", "", <<>>, <<>>, FALSE)>>

\* variant: the PREROUTING entry rule is appended, the OUTPUT one inserted
SetupCmdsAppendPrerouting(pol, fam) ==
    LET chain == ChainName(pol.port)
        body == ChainBody(pol, fam)
    IN  <<Cmd("N", "nat", "", chain, <<>>, TRUE),
          Cmd("F", "nat", "", chain, <<>>, TRUE)>>
        \o (IF pol.user # None
            THEN <<Cmd("I", "mangle", "OUTPUT", <<>>, MarkRule(pol), TRUE)>>
            ELSE <<>>)
        \o <<Cmd("I", "nat", "OUTPUT", <<>>, EntryArgs(pol), TRUE),
             Cmd("A", "nat", "PREROUTING", <<>>, EntryArgs(pol), TRUE)>>
        \o [i \in 1..Len(body) |->
               Cmd("A", "nat", "", chain, body[i], TRUE)]
        \o <<Cmd("conntrack", "", "", <<>>, <<>>, FALSE)>>

\* the commands of setup_firewall behind its restore_firewall call
SetupCmds(pol, fam) ==
    LET chain == ChainName(pol.port)
        body == ChainBody(pol, fam)
    IN  <<Cmd("N", "nat", "", chain, <<>>, TRUE),
          Cmd("F", "nat", "", chain, <<>>, TRUE)>>
        \o (IF pol.user # None
            THEN <<Cmd("I", "mangle", "OUTPUT", <<>>, MarkRule(pol), TRUE)>>
            ELSE <<>>)
        \o <<Cmd("I", "nat", "OUTPUT", <<>>, EntryArgs(pol), TRUE),
             Cmd("I", "nat", "PREROUTING", <<>>, EntryArgs(pol), TRUE)>>
        \o [i \in 1..Len(body) |->
               Cmd("A", "nat", "", chain, body[i], TRUE)]
        \o <<Cmd("conntrack", "", "", <<>>, <<>>, FALSE)>>

(* ------------------------------------------------------------ the backend *)
\* the firewall state as one value
Fw == [chains |-> natChains, out |-> natOutput, pre |-> natPrerouting,
       mangle |-> mangleOutput]

RemoveFirst(list, r) ==
    LET i == CHOOSE k \in 1..Len(list) :
                 list[k] = r /\ \A j \in 1..(k - 1) : list[j] # r
    IN  SubSeq(list, 1, i - 1) \o SubSeq(list, i + 1, Len(list))

Contains(list, r) == \E k \in 1..Len(list) : list[k] = r

Referenced(fw, chain) ==
    \/ \E k \in 1..Len(fw.out) : fw.out[k].jump = chain
    \/ \E k \in 1..Len(fw.pre) : fw.pre[k].jump = chain

\* the list of a built-in chain and the state with that list replaced
Builtin(fw, c) ==
    IF c.table = "mangle" THEN fw.mangle
    ELSE IF c.builtin = "OUTPUT" THEN fw.out ELSE fw.pre

WithBuiltin(fw, c, list) ==
    IF c.table = "mangle" THEN [fw EXCEPT !.mangle = list]
    ELSE IF c.builtin = "OUTPUT" THEN [fw EXCEPT !.out = list]
    ELSE [fw EXCEPT !.pre = list]

\* iptables: whether command c succeeds in state fw, and the state it leaves
Iptables(c, fw) ==
    CASE c.op = "N" ->
           IF c.chain \in DOMAIN fw.chains THEN [ok |-> FALSE, fw |-> fw]
           ELSE [ok |-> TRUE,
                 fw |-> [fw EXCEPT !.chains =
                            [n \in DOMAIN fw.chains \cup {c.chain} |->
                                IF n = c.chain THEN <<>> ELSE fw.chains[n]]]]
      [] c.op = "F" ->
           IF c.chain \notin DOMAIN fw.chains THEN [ok |-> FALSE, fw |-> fw]
           ELSE [ok |-> TRUE,
                 fw |-> [fw EXCEPT !.chains[c.chain] = <<>>]]
      [] c.op = "X" ->
           IF \/ c.chain \notin DOMAIN fw.chains
              \/ fw.chains[c.chain] # <<>>
              \/ Referenced(fw, c.chain)
           THEN [ok |-> FALSE, fw |-> fw]
           ELSE [ok |-> TRUE,
                 fw |-> [fw EXCEPT !.chains =
                            [n \in DOMAIN fw.chains \ {c.chain} |->
                                fw.chains[n]]]]
      [] c.op = "A" /\ c.builtin = "" ->
           IF c.chain \notin DOMAIN fw.chains THEN [ok |-> FALSE, fw |-> fw]
           ELSE [ok |-> TRUE,
                 fw |-> [fw EXCEPT !.chains[c.chain] = Append(@, c.rule)]]
      [] c.op = "A" /\ c.builtin # "" ->
           IF c.table = "nat" /\ c.rule.jump \notin DOMAIN fw.chains
           THEN [ok |-> FALSE, fw |-> fw]
           ELSE [ok |-> TRUE,
                 fw |-> WithBuiltin(fw, c, Append(Builtin(fw, c), c.rule))]
      [] c.op = "I" ->
           IF c.table = "nat" /\ c.rule.jump \notin DOMAIN fw.chains
           THEN [ok |-> FALSE, fw |-> fw]
           ELSE [ok |-> TRUE,
                 fw |-> WithBuiltin(fw, c, <<c.rule>> \o Builtin(fw, c))]
      [] c.op = "D" ->
           IF ~Contains(Builtin(fw, c), c.rule)
           THEN [ok |-> FALSE, fw |-> fw]
           ELSE [ok |-> TRUE,
                 fw |-> WithBuiltin(fw, c,
                                    RemoveFirst(Builtin(fw, c), c.rule))]
      [] OTHER -> [ok |-> TRUE, fw |-> fw]

\* ipt_chain_exists(family, table, chain)
ipt_chain_exists(fw, chain) == chain \in DOMAIN fw.chains

(* ------------------------------------------------------------ the calls *)
\* variant: the udp argument is not checked
UnsupportedIgnoringUdp(fam, u) == fam # AF_INET

\* the family / udp checks both functions start with
Unsupported(fam, u) == fam # AF_INET \/ u

\* variant: setup_firewall does not call restore_firewall first
StartPcNoCleanup(op) == IF op = "setup" THEN "setup" ELSE "query"

\* where a call starts once its arguments are accepted: setup_firewall
\* calls restore_firewall first, and restore_firewall starts with the query
StartPc(op) == "query"

\* an instance calls setup_firewall or restore_firewall
Call(p, op, fam, u) ==
    /\ pc[p] = "idle"
    /\ prev' = [prev EXCEPT ![p] = <<call[p], result[p], ncmd[p]>>]
    /\ call' = [call EXCEPT ![p] = op]
    /\ family' = [family EXCEPT ![p] = fam]
    /\ udp' = [udp EXCEPT ![p] = u]
    /\ ncmd' = [ncmd EXCEPT ![p] = 0]
    /\ since' = [q \in Procs |->
                    IF q = p
                    THEN {r \in Procs \ {p} :
                             /\ pc[r] = "idle"
                             /\ call[r] = "setup"
                             /\ result[r] = "ok"}
                    ELSE since[q] \ {p}]
    /\ IF Unsupported(fam, u)
       THEN /\ result' = [result EXCEPT ![p] = "unsupported"]
            /\ UNCHANGED <<pc, idx>>
       ELSE /\ result' = [result EXCEPT ![p] = "running"]
            /\ pc' = [pc EXCEPT ![p] = StartPc(op)]
            /\ idx' = [idx EXCEPT ![p] = 1]
    /\ UNCHANGED <<natChains, natOutput, natPrerouting, mangleOutput,
                   policy, faults>>

\* control behind restore_firewall: back in setup_firewall, or returned
AfterRestore(p) ==
    IF call[p] = "setup"
    THEN /\ pc' = [pc EXCEPT ![p] = "setup"]
         /\ idx' = [idx EXCEPT ![p] = 1]
         /\ UNCHANGED result
    ELSE /\ pc' = [pc EXCEPT ![p] = "idle"]
         /\ idx' = [idx EXCEPT ![p] = 0]
         /\ result' = [result EXCEPT ![p] = "ok"]

\* variant: restore_firewall runs its removals without asking for the chain
QueryNoGuard(p) ==
    /\ pc[p] = "query"
    /\ ncmd' = [ncmd EXCEPT ![p] = @ + 1]
    /\ pc' = [pc EXCEPT ![p] = "restore"]
    /\ idx' = [idx EXCEPT ![p] = 1]
    /\ UNCHANGED <<natChains, natOutput, natPrerouting, mangleOutput,
                   policy, call, family, udp, result, prev, since, faults>>

\* if ipt_chain_exists(family, table, chain):
Query(p) ==
    /\ pc[p] = "query"
    /\ ncmd' = [ncmd EXCEPT ![p] = @ + 1]
    /\ IF ipt_chain_exists(Fw, ChainName(policy[p].port))
       THEN /\ pc' = [pc EXCEPT ![p] = "restore"]
            /\ idx' = [idx EXCEPT ![p] = 1]
            /\ UNCHANGED result
       ELSE AfterRestore(p)
    /\ UNCHANGED <<natChains, natOutput, natPrerouting, mangleOutput,
                   policy, call, family, udp, prev, since, faults>>

\* the command list of the phase an instance is in
Cmds(p) ==
    IF pc[p] = "restore" THEN RestoreCmds(policy[p])
    ELSE SetupCmds(policy[p], family[p])

\* what a command can do: "run" is the backend acting as specified,
\* "fail" an environmental failure with no effect, "missing" the conntrack
\* program not being runnable
Outcomes(c) ==
    {"run"} \cup (IF faults > 0 THEN {"fail"} ELSE {})
            \cup (IF faults > 0 /\ c.op = "conntrack" THEN {"missing"} ELSE {})

\* an instance issues its next backend command
Exec(p) ==
    /\ pc[p] \in {"restore", "setup"}
    /\ LET cmds == Cmds(p)
           c == cmds[idx[p]]
       IN \E o \in Outcomes(c) :
            LET r == IF o = "run" THEN Iptables(c, Fw)
                     ELSE [ok |-> FALSE, fw |-> Fw]
                \* ipt raises on failure, nonfatal() swallows it, and the
                \* conntrack call handles only a nonzero exit status
                raised == IF c.op = "conntrack" THEN o = "missing"
                          ELSE ~r.ok /\ c.fatal
            IN /\ natChains' = r.fw.chains
               /\ natOutput' = r.fw.out
               /\ natPrerouting' = r.fw.pre
               /\ mangleOutput' = r.fw.mangle
               /\ faults' = IF o = "run" THEN faults ELSE faults - 1
               /\ ncmd' = [ncmd EXCEPT ![p] = @ + 1]
               /\ IF raised
                  THEN /\ pc' = [pc EXCEPT ![p] = "idle"]
                       /\ idx' = [idx EXCEPT ![p] = 0]
                       /\ result' = [result EXCEPT ![p] = "fatal"]
                  ELSE IF idx[p] < Len(cmds)
                  THEN /\ idx' = [idx EXCEPT ![p] = @ + 1]
                       /\ UNCHANGED <<pc, result>>
                  ELSE IF pc[p] = "restore"
                  THEN AfterRestore(p)
                  ELSE /\ pc' = [pc EXCEPT ![p] = "idle"]
                       /\ idx' = [idx EXCEPT ![p] = 0]
                       /\ result' = [result EXCEPT ![p] = "ok"]
    /\ UNCHANGED <<policy, call, family, udp, prev, since>>

\* the process is interrupted between two backend commands
Interrupt(p) ==
    /\ pc[p] # "idle"
    /\ pc' = [pc EXCEPT ![p] = "idle"]
    /\ idx' = [idx EXCEPT ![p] = 0]
    /\ result' = [result EXCEPT ![p] = "interrupted"]
    /\ UNCHANGED <<natChains, natOutput, natPrerouting, mangleOutput,
                   policy, call, family, udp, ncmd, prev, since, faults>>

(* ------------------------------------------------------ the specifications *)
InitCommon ==
    /\ natChains = <<>>
    /\ natOutput = <<>>
    /\ natPrerouting = <<>>
    /\ mangleOutput = <<>>
    /\ pc = [p \in Procs |-> "idle"]
    /\ idx = [p \in Procs |-> 0]
    /\ call = [p \in Procs |-> "none"]
    /\ family = [p \in Procs |-> AF_INET]
    /\ udp = [p \in Procs |-> FALSE]
    /\ result = [p \in Procs |-> "none"]
    /\ ncmd = [p \in Procs |-> 0]
    /\ prev = [p \in Procs |-> <<"none", "none", 0>>]
    /\ since = [p \in Procs |-> {}]

\* one instance on a clean host, every policy, interruptions, no faults
Init ==
    /\ InitCommon
    /\ policy \in [Procs -> Policies(1, NsLists, SubnetLists)
                            \cup Policies(2, {<<>>}, {<<>>})]
    /\ \A p \in Procs : policy[p].port = PortOf(p)
    /\ policy[2].user = None
    /\ faults = 0

CallAny(p) ==
    \E op \in {"setup", "restore"}, fam \in {AF_INET, AF_INET6},
       u \in BOOLEAN : Call(p, op, fam, u)

Next ==
    \E p \in {1} :
        \/ CallAny(p)
        \/ Query(p)
        \/ Exec(p)
        \/ Interrupt(p)

Spec == Init /\ [][Next]_vars

\* two instances with different ports, interleaved command by command
InitConc ==
    /\ InitCommon
    /\ policy \in [Procs -> Policies(1, ConcNsLists, ConcSubnetLists)
                            \cup Policies(2, ConcNsLists, ConcSubnetLists)]
    /\ \A p \in Procs : policy[p].port = PortOf(p)
    /\ faults = 0

NextConc ==
    \E p \in Procs :
        \/ CallAny(p)
        \/ Query(p)
        \/ Exec(p)

SpecConc == InitConc /\ [][NextConc]_vars

\* the inputs used when backend commands may fail for environmental reasons
FaultSubnetLists == { <<IncHalf, ExcQuarter>> }
FaultNsLists == { << <<AF_INET6, 2>>, <<AF_INET, 3>> >> }

\* one instance, interruptions, and up to MaxFaults environmental failures
InitFault ==
    /\ InitCommon
    /\ policy \in [Procs -> Policies(1, FaultNsLists, FaultSubnetLists)
                            \cup Policies(2, {<<>>}, {<<>>})]
    /\ \A p \in Procs : policy[p].port = PortOf(p)
    /\ policy[2].user = None
    /\ faults = MaxFaults

SpecFault == InitFault /\ [][Next]_vars

(* ------------------------------------------------ packets and evaluation *)
\* whether network dest = <<net, width>> contains the address
Covers(dest, addr) ==
    addr \div Pow2(AddrBits - dest[2]) = dest[1] \div Pow2(AddrBits - dest[2])

Addrs == 0..(Pow2(AddrBits) - 1)

Packets ==
    [dst : {1, 3, LLMNR_ADDR}
           \cup {a * Pow2(AddrBits - 4) : a \in {8, 9, 12}},
     proto : {"tcp", "udp"},
     dport : {DNS_PORT, 1500, LLMNR_PORT}, ttl : {TTL_SENTINEL, 64},
     local : BOOLEAN]

\* whether a packet satisfies every match of a rule
Matches(rule, pkt) ==
    /\ rule.ttl = 0 \/ pkt.ttl = rule.ttl
    /\ rule.dstType = "" \/ (rule.dstType = "LOCAL" /\ pkt.local)
    /\ rule.dest = <<>> \/ Covers(rule.dest, pkt.dst)
    /\ rule.proto = "" \/ pkt.proto = rule.proto
    /\ rule.dports = <<>> \/ pkt.dport \in rule.dports[1]..rule.dports[2]

\* first-match evaluation: the index of the first matching rule, 0 if none
FirstMatch(chain, pkt) ==
    IF \E i \in 1..Len(chain) : Matches(chain[i], pkt)
    THEN CHOOSE i \in 1..Len(chain) :
             /\ Matches(chain[i], pkt)
             /\ \A j \in 1..(i - 1) : ~Matches(chain[j], pkt)
    ELSE 0

Redirected(chain, pkt) ==
    LET i == FirstMatch(chain, pkt)
    IN  i # 0 /\ chain[i].target = "REDIRECT"

(* -------------------------------------------------------- the properties *)
JumpCount(list, chain) ==
    Cardinality({k \in 1..Len(list) : list[k].jump = chain})

MarkCount(list, port) ==
    Cardinality({k \in 1..Len(list) : list[k].setmark = port})

TheChain(p) == ChainName(policy[p].port)

\* the instance's last call has returned (normally or with an error)
Returned(p, op) ==
    pc[p] = "idle" /\ call[p] = op /\ result[p] \in {"ok", "fatal"}

SetupDone(p) == pc[p] = "idle" /\ call[p] = "setup" /\ result[p] = "ok"

\* nothing of the instance is installed
Clean(p) ==
    /\ TheChain(p) \notin DOMAIN natChains
    /\ JumpCount(natOutput, TheChain(p)) = 0
    /\ JumpCount(natPrerouting, TheChain(p)) = 0
    /\ MarkCount(mangleOutput, policy[p].port) = 0

IsAfInet(ns) == ns[1] = AF_INET

\* the chain body of the policy, phase by phase
PhaseOrdered(ch, pol) ==
    LET ns == SelectSeq(pol.nslist, IsAfInet)
        k == Len(ns)
        m == Len(pol.subnets)
    IN  /\ Len(ch) = k + m + 3
        /\ ch[1].target = "RETURN" /\ ch[1].ttl = 63
        /\ ch[1].dest = <<>> /\ ch[1].proto = "" /\ ch[1].dstType = ""
        /\ \A i \in 1..k :
              /\ ch[1 + i].target = "REDIRECT"
              /\ ch[1 + i].dest = <<ns[i][2], HostWidth>>
              /\ ch[1 + i].proto = "udp"
              /\ ch[1 + i].dports = <<53, 53>>
              /\ ch[1 + i].toPorts = pol.dnsport
              /\ ch[1 + i].ttl = 0 /\ ch[1 + i].dstType = ""
        /\ ch[k + 2].target = "RETURN" /\ ch[k + 2].dstType = "LOCAL"
        /\ ch[k + 2].dest = <<>> /\ ch[k + 2].proto = ""
        /\ ch[k + 2].ttl = 0
        /\ \A i \in 1..m :
              /\ ch[k + 2 + i].proto = "tcp"
              /\ ch[k + 2 + i].ttl = 0 /\ ch[k + 2 + i].dstType = ""
              /\ \E j \in 1..m :
                    LET s == pol.subnets[j]
                    IN /\ ch[k + 2 + i].dest = <<s[4], s[2]>>
                       /\ ch[k + 2 + i].target =
                              (IF s[3] THEN "RETURN" ELSE "REDIRECT")
                       /\ ch[k + 2 + i].toPorts =
                              (IF s[3] THEN 0 ELSE pol.port)
                       /\ ch[k + 2 + i].dports =
                              (IF s[5] # 0 THEN <<s[5], s[6]>> ELSE <<>>)
        /\ \A j \in 1..m : \E i \in 1..m :
              ch[k + 2 + i].dest = <<pol.subnets[j][4], pol.subnets[j][2]>>
              /\ ch[k + 2 + i].target =
                     (IF pol.subnets[j][3] THEN "RETURN" ELSE "REDIRECT")
              /\ ch[k + 2 + i].dports =
                     (IF pol.subnets[j][5] # 0
                      THEN <<pol.subnets[j][5], pol.subnets[j][6]>>
                      ELSE <<>>)
        /\ ch[k + m + 3].target = "REDIRECT"
        /\ ch[k + m + 3].dest = <<LLMNR_ADDR, HostWidth>>
        /\ ch[k + m + 3].proto = "udp"
        /\ ch[k + m + 3].dports = <<5355, 5355>>
        /\ ch[k + m + 3].toPorts = pol.dnsport
        /\ ch[k + m + 3].ttl = 0 /\ ch[k + m + 3].dstType = ""

\* exactly what one setup_firewall on a clean host installs
InstalledOnce(p) ==
    /\ TheChain(p) \in DOMAIN natChains
    /\ natChains[TheChain(p)] = ChainBody(policy[p], AF_INET)
    /\ JumpCount(natOutput, TheChain(p)) = 1
    /\ JumpCount(natPrerouting, TheChain(p)) = 1
    /\ Contains(natOutput, EntryArgs(policy[p]))
    /\ Contains(natPrerouting, EntryArgs(policy[p]))
    /\ MarkCount(mangleOutput, policy[p].port) =
           (IF policy[p].user # None THEN 1 ELSE 0)

\* C1: restore_firewall run right after a successful setup_firewall (same
\* port and user) returns normally and leaves no chain sshuttle-<port>, no
\* rule of nat OUTPUT or nat PREROUTING jumping to it and no MARK rule of
\* the port in mangle OUTPUT.
C1_RestoreAfterSetupClean ==
    \A p \in Procs :
        (Returned(p, "restore") /\ prev[p][1] = "setup" /\ prev[p][2] = "ok")
        => (result[p] = "ok" /\ Clean(p))

C1_Witness ==
    \E p \in Procs :
        /\ Returned(p, "restore") /\ result[p] = "ok"
        /\ prev[p][1] = "setup" /\ prev[p][2] = "ok"
        /\ policy[p].user # None
        /\ ncmd[p] = 6
        /\ Clean(p)

\* C2: a second setup_firewall with the same policy right after a
\* successful one returns normally and leaves exactly what a single call
\* installs: the same chain body, one entry rule in nat OUTPUT and one in
\* nat PREROUTING, at most one MARK rule (one when user is set), nothing
\* duplicated.
C2_SetupTwiceIsSetupOnce ==
    \A p \in Procs :
        (Returned(p, "setup") /\ prev[p][1] = "setup" /\ prev[p][2] = "ok")
        => (result[p] = "ok" /\ InstalledOnce(p))

C2_Witness ==
    \E p \in Procs :
        /\ SetupDone(p)
        /\ prev[p][1] = "setup" /\ prev[p][2] = "ok"
        /\ policy[p].user # None
        /\ Len(policy[p].subnets) >= 2
        /\ InstalledOnce(p)

\* C3: after a setup_firewall or restore_firewall run was interrupted
\* behind any of its backend commands, a complete setup_firewall with the
\* same policy returns normally and leaves exactly what a single setup on
\* a clean host installs.
C3_SetupAfterInterruption ==
    \A p \in Procs :
        (Returned(p, "setup") /\ prev[p][2] = "interrupted")
        => (result[p] = "ok" /\ InstalledOnce(p))

C3_Witness ==
    \E p \in Procs :
        /\ SetupDone(p)
        /\ prev[p] = <<"setup", "interrupted", 5>>
        /\ policy[p].user # None
        /\ InstalledOnce(p)

\* C4: after a successful setup_firewall the chain holds, in this order,
\* the TTL-63 RETURN rule, one UDP/53 REDIRECT rule per nameserver of the
\* call's family in list order, the dst-type LOCAL RETURN rule, one TCP
\* rule per subnet entry, and the LLMNR REDIRECT rule; nothing else.
C4_PhaseOrder ==
    \A p \in Procs :
        SetupDone(p) =>
            /\ TheChain(p) \in DOMAIN natChains
            /\ PhaseOrdered(natChains[TheChain(p)], policy[p])

C4_Witness ==
    \E p \in Procs :
        /\ SetupDone(p)
        /\ Len(policy[p].nslist) = 3
        /\ Len(policy[p].subnets) = 3
        /\ PhaseOrdered(natChains[TheChain(p)], policy[p])

\* the position of the rule compiled from subnet entry s, 0 if there is none
EntryIndex(ch, s) ==
    LET same(i) == /\ ch[i].proto = "tcp"
                   /\ ch[i].dest = <<s[4], s[2]>>
                   /\ ch[i].target = (IF s[3] THEN "RETURN" ELSE "REDIRECT")
                   /\ ch[i].dports = (IF s[5] # 0 THEN <<s[5], s[6]>>
                                      ELSE <<>>)
    IN  IF \E i \in 1..Len(ch) : same(i)
        THEN CHOOSE i \in 1..Len(ch) : same(i)
        ELSE 0

\* an exclude entry x and an include entry n that cover a common address,
\* the exclude entry being the more specific network (the longer prefix)
NarrowerExclude(x, n) ==
    /\ x[3] /\ ~n[3]
    /\ x[2] > n[2]
    /\ \E a \in Addrs : Covers(<<x[4], x[2]>>, a) /\ Covers(<<n[4], n[2]>>, a)

PassesPorts(s, pkt) == s[5] = 0 \/ pkt.dport \in s[5]..s[6]

ExcludePairs(pol) ==
    {pr \in (1..Len(pol.subnets)) \X (1..Len(pol.subnets)) :
        NarrowerExclude(pol.subnets[pr[1]], pol.subnets[pr[2]])}

\* C5 as stated: the exclude rule precedes the include rule, so that no TCP
\* packet to an address both entries cover is redirected.
C5_Original ==
    \A p \in Procs :
        SetupDone(p) =>
            LET ch == natChains[TheChain(p)]
                subs == policy[p].subnets
            IN \A pr \in ExcludePairs(policy[p]) :
                  /\ EntryIndex(ch, subs[pr[1]]) # 0
                  /\ EntryIndex(ch, subs[pr[1]]) < EntryIndex(ch, subs[pr[2]])
                  /\ \A pkt \in Packets :
                        (/\ pkt.proto = "tcp"
                         /\ Covers(<<subs[pr[1]][4], subs[pr[1]][2]>>, pkt.dst)
                         /\ Covers(<<subs[pr[2]][4], subs[pr[2]][2]>>, pkt.dst))
                        => ~Redirected(ch, pkt)

\* C5: for an exclude entry and an include entry covering a common address,
\* the exclude entry being the more specific, the exclude entry's RETURN rule
\* precedes the include entry's REDIRECT rule in the chain, whatever their
\* order in the input; a TCP packet to an address both cover whose
\* destination port passes the exclude entry's port filter is never
\* redirected by that include entry's rule.
C5_ExcludeBeforeInclude ==
    \A p \in Procs :
        SetupDone(p) =>
            LET ch == natChains[TheChain(p)]
                subs == policy[p].subnets
            IN \A pr \in ExcludePairs(policy[p]) :
                  /\ EntryIndex(ch, subs[pr[1]]) # 0
                  /\ EntryIndex(ch, subs[pr[1]]) < EntryIndex(ch, subs[pr[2]])
                  /\ \A pkt \in Packets :
                        (/\ pkt.proto = "tcp"
                         /\ PassesPorts(subs[pr[1]], pkt)
                         /\ Covers(<<subs[pr[1]][4], subs[pr[1]][2]>>, pkt.dst)
                         /\ Covers(<<subs[pr[2]][4], subs[pr[2]][2]>>, pkt.dst))
                        => FirstMatch(ch, pkt) # EntryIndex(ch, subs[pr[2]])

\* the include entry comes first in the input and its rule second in the chain
C5_Witness ==
    \E p \in Procs :
        /\ SetupDone(p)
        /\ \E pr \in ExcludePairs(policy[p]) :
              /\ pr[2] < pr[1]
              /\ EntryIndex(natChains[TheChain(p)], policy[p].subnets[pr[1]])
                 < EntryIndex(natChains[TheChain(p)], policy[p].subnets[pr[2]])
              /\ EntryIndex(natChains[TheChain(p)],
                            policy[p].subnets[pr[1]]) # 0

\* C6: in the chain of a successful setup_firewall, evaluated first match
\* wins, a packet whose destination the OS classifies LOCAL is never
\* redirected by a subnet rule, and the LOCAL RETURN rule precedes every
\* subnet rule.
C6_LocalNeverRedirectedBySubnet ==
    \A p \in Procs :
        SetupDone(p) =>
            LET ch == natChains[TheChain(p)]
            IN /\ \A pkt \in Packets :
                     pkt.local =>
                        LET i == FirstMatch(ch, pkt)
                        IN ~(i # 0 /\ ch[i].proto = "tcp"
                                   /\ ch[i].target = "REDIRECT")
               /\ \E l \in 1..Len(ch) :
                     /\ ch[l].dstType = "LOCAL" /\ ch[l].target = "RETURN"
                     /\ \A i \in 1..Len(ch) : ch[i].proto = "tcp" => l < i

\* a local TCP packet that an include rule covers is returned by the LOCAL rule
C6_Witness ==
    \E p \in Procs :
        /\ SetupDone(p)
        /\ \E pkt \in Packets :
              LET ch == natChains[TheChain(p)]
                  i == FirstMatch(ch, pkt)
              IN /\ pkt.local /\ pkt.proto = "tcp" /\ pkt.ttl # 63
                 /\ i # 0 /\ ch[i].dstType = "LOCAL"
                 /\ \E j \in 1..Len(ch) :
                       /\ Matches(ch[j], pkt)
                       /\ ch[j].target = "REDIRECT" /\ ch[j].proto = "tcp"

\* C7: in the chain of a successful setup_firewall, evaluated first match
\* wins, a packet with TTL 63 is not redirected by any rule: the TTL-63
\* RETURN rule is the first rule and is the packet's first match.
C7_Ttl63NeverRedirected ==
    \A p \in Procs :
        SetupDone(p) =>
            LET ch == natChains[TheChain(p)]
            IN /\ Len(ch) >= 1
               /\ ch[1].target = "RETURN" /\ ch[1].ttl = 63
               /\ \A pkt \in Packets :
                     pkt.ttl = 63 =>
                        /\ FirstMatch(ch, pkt) = 1
                        /\ ~Redirected(ch, pkt)

\* TTL-63 packets that a DNS, a subnet and the LLMNR redirect rule match
C7_Witness ==
    \E p \in Procs :
        /\ SetupDone(p)
        /\ LET ch == natChains[TheChain(p)]
               hit(pr) == \E pkt \in Packets : \E j \in 1..Len(ch) :
                             /\ pkt.ttl = 63 /\ FirstMatch(ch, pkt) = 1
                             /\ Matches(ch[j], pkt)
                             /\ ch[j].target = "REDIRECT"
                             /\ ch[j].proto = pr[1] /\ ch[j].dports = pr[2]
           IN /\ hit(<<"udp", <<53, 53>>>>)
              /\ hit(<<"tcp", <<>>>>)
              /\ hit(<<"udp", <<5355, 5355>>>>)

\* the position of the first rule of a built-in list that jumps to chain
JumpIndex(list, chain) ==
    IF \E k \in 1..Len(list) : list[k].jump = chain
    THEN CHOOSE k \in 1..Len(list) :
             list[k].jump = chain /\ \A j \in 1..(k - 1) : list[j].jump # chain
    ELSE 0

\* C8: when setup_firewall for port B runs from start to successful return
\* while the instance of a different port A stays installed by an earlier
\* successful setup_firewall, B's entry rule is at position 1 of nat OUTPUT
\* and of nat PREROUTING, ahead of A's entry rule in both, and A's entry
\* rules and chain remain installed.
C8_LastInstalledFirst ==
    \A a \in Procs : \A b \in Procs \ {a} :
        (SetupDone(b) /\ a \in since[b]) =>
            /\ JumpIndex(natOutput, TheChain(b)) = 1
            /\ JumpIndex(natPrerouting, TheChain(b)) = 1
            /\ JumpIndex(natOutput, TheChain(a)) > 1
            /\ JumpIndex(natPrerouting, TheChain(a)) > 1
            /\ InstalledOnce(a)

C8_Witness ==
    \E a \in Procs : \E b \in Procs \ {a} :
        /\ SetupDone(b) /\ a \in since[b] /\ SetupDone(a)
        /\ natOutput = <<EntryArgs(policy[b]), EntryArgs(policy[a])>>
        /\ natPrerouting = <<EntryArgs(policy[b]), EntryArgs(policy[a])>>
        /\ policy[a].user # None

\* the parts of the firewall that belong to an instance
Owned(p, chains, out, pre, mangle) ==
    <<IF TheChain(p) \in DOMAIN chains THEN <<chains[TheChain(p)]>> ELSE <<>>,
      JumpCount(out, TheChain(p)), JumpCount(pre, TheChain(p)),
      MarkCount(mangle, policy[p].port)>>

\* a backend command issued by instance p leaves what instance q owns alone
NoInterference(p, q) ==
    ncmd'[p] # ncmd[p] =>
        Owned(q, natChains', natOutput', natPrerouting', mangleOutput')
        = Owned(q, natChains, natOutput, natPrerouting, mangleOutput)

\* C9: for two instances with different ports, under every interleaving of
\* their backend commands, no command of one instance creates, flushes,
\* deletes or appends to the other's chain or changes the other's entry
\* rules or MARK rule; once both setups have returned successfully each
\* chain holds the body its own setup installs and nat OUTPUT and nat
\* PREROUTING hold exactly one entry rule per instance.
C9_InstanceIsolation ==
    /\ [][\A p \in Procs : \A q \in Procs \ {p} : NoInterference(p, q)]_vars
    /\ []((\A p \in Procs : SetupDone(p)) =>
             /\ \A p \in Procs : InstalledOnce(p)
             /\ Len(natOutput) = Cardinality(Procs)
             /\ Len(natPrerouting) = Cardinality(Procs))

\* both setups overlapped in time and both have returned
C9_Witness ==
    /\ \A p \in Procs : SetupDone(p) /\ InstalledOnce(p)
    /\ \A p \in Procs : since[p] = {}
    /\ \E p \in Procs : policy[p].user # None
    /\ natOutput[1] # natPrerouting[1]

\* C10: a call of setup_firewall or restore_firewall whose family is not
\* IPv4 or whose udp argument is set ends with the unsupported-configuration
\* error, has issued no backend command and has left the firewall unchanged.
C10_UnsupportedNoCommands ==
    [][\A p \in Procs :
          (family'[p] # AF_INET \/ udp'[p]) =>
              /\ result'[p] = "unsupported"
              /\ pc'[p] = "idle"
              /\ ncmd'[p] = 0
              /\ (<<call[p], family[p], udp[p], result[p], prev[p]>>
                  # <<call'[p], family'[p], udp'[p], result'[p], prev'[p]>>)
                 => (<<natChains, natOutput, natPrerouting, mangleOutput>>' 
                     = <<natChains, natOutput, natPrerouting, mangleOutput>>)]_vars

\* restore_firewall refused for udp while the instance's chain is installed,
\* and setup_firewall refused for the family
C10_Witness ==
    \E p \in Procs :
        /\ result[p] = "unsupported" /\ ncmd[p] = 0
        /\ call[p] = "restore" /\ udp[p] /\ family[p] = AF_INET
        /\ prev[p] = <<"setup", "unsupported", 0>>
        /\ TheChain(p) \in DOMAIN natChains

\* instance p issues a backend command in this step
Issues(p) == ncmd'[p] # ncmd[p]

\* the command instance p is about to issue
NextCmd(p) == Cmds(p)[idx[p]]

\* instance p issues the next command of its list and the command fails
IssuesFailing(p) ==
    /\ pc[p] \in {"restore", "setup"}
    /\ Issues(p)
    /\ faults' # faults \/ ~Iptables(NextCmd(p), Fw).ok

\* C11: restore_firewall for a port whose chain does not exist returns
\* success behind the chain-existence query alone; it issues no removal, no
\* flush and no chain deletion in nat or mangle, whether or not user is set,
\* and leaves the firewall unchanged.
C11_RestoreWithoutChainIsNoop ==
    [][\A p \in Procs :
          (/\ pc[p] = "query" /\ call[p] = "restore"
           /\ TheChain(p) \notin DOMAIN natChains
           /\ Issues(p))
          => /\ pc'[p] = "idle" /\ result'[p] = "ok"
             /\ ncmd'[p] = 1
             /\ <<natChains, natOutput, natPrerouting, mangleOutput>>'
                = <<natChains, natOutput, natPrerouting, mangleOutput>>]_vars

C11_Witness ==
    \E p \in Procs :
        /\ Returned(p, "restore") /\ result[p] = "ok"
        /\ ncmd[p] = 1
        /\ policy[p].user # None
        /\ TheChain(p) \notin DOMAIN natChains

\* C12 as stated: when the chain flush of restore_firewall fails, the call
\* ends with the failure reported to the caller.
C12_Original ==
    [][\A p \in Procs :
          (/\ pc[p] = "restore" /\ IssuesFailing(p)
           /\ NextCmd(p).op = "F")
          => (pc'[p] = "idle" /\ result'[p] = "fatal")]_vars

\* C12: in restore_firewall a failure of the chain flush is swallowed like
\* the rule removals: the chain deletion is still the next command issued,
\* and only a failure of the chain deletion is reported to the caller.
C12_FlushFailureSwallowed ==
    [][\A p \in Procs :
          (pc[p] = "restore" /\ IssuesFailing(p)) =>
              /\ NextCmd(p).op = "F" =>
                    /\ pc'[p] = "restore" /\ result'[p] = "running"
                    /\ idx'[p] = idx[p] + 1
                    /\ RestoreCmds(policy[p])[idx'[p]].op = "X"
              /\ NextCmd(p).op = "X" =>
                    (pc'[p] = "idle" /\ result'[p] = "fatal")]_vars

\* the flush has failed (the chain still holds rules) and the deletion is next
C12_Witness ==
    \E p \in Procs :
        /\ pc[p] = "restore" /\ result[p] = "running"
        /\ NextCmd(p).op = "X"
        /\ TheChain(p) \in DOMAIN natChains
        /\ natChains[TheChain(p)] # <<>>

\* C13: in restore_firewall a failure of the MARK rule removal, of the
\* OUTPUT entry removal or of the PREROUTING entry removal is swallowed: the
\* next teardown command is issued, in order, and the call reports failure
\* only when the chain deletion fails.
C13_RemovalFailuresSwallowed ==
    [][\A p \in Procs :
          (pc[p] = "restore" /\ Issues(p)) =>
              /\ (IssuesFailing(p) /\ NextCmd(p).op = "D") =>
                    /\ pc'[p] = "restore" /\ result'[p] = "running"
                    /\ idx'[p] = idx[p] + 1
              /\ result'[p] = "fatal" =>
                    (NextCmd(p).op = "X" /\ IssuesFailing(p))
              /\ (NextCmd(p).op = "X" /\ IssuesFailing(p)) =>
                    result'[p] = "fatal"]_vars

\* the OUTPUT entry removal failed, and the flush is about to be issued
C13_Witness ==
    \E p \in Procs :
        /\ pc[p] = "restore" /\ result[p] = "running"
        /\ NextCmd(p).op = "F"
        /\ JumpCount(natOutput, TheChain(p)) = 1
        /\ JumpCount(natPrerouting, TheChain(p)) = 0
        /\ policy[p].user # None
        /\ MarkCount(mangleOutput, policy[p].port) = 0

\* C14 as stated: whatever the conntrack call does (exit status 0, a nonzero
\* exit status, or the program not being runnable), setup_firewall returns
\* success and the installed rules stay in place.
C14_Original ==
    [][\A p \in Procs :
          (pc[p] = "setup" /\ Issues(p) /\ NextCmd(p).op = "conntrack")
          => /\ pc'[p] = "idle" /\ result'[p] = "ok"
             /\ <<natChains, natOutput, natPrerouting, mangleOutput>>'
                = <<natChains, natOutput, natPrerouting, mangleOutput>>]_vars

\* C15: setup_firewall stops at the first rule-install command that fails:
\* the failure is reported, no further backend command is issued by the
\* call, and nothing is rolled back (the firewall stays as the commands
\* before the failing one left it).
C15_SetupAbortsOnFirstFailure ==
    /\ [][\A p \in Procs :
             (/\ pc[p] = "setup" /\ IssuesFailing(p)
              /\ NextCmd(p).op # "conntrack")
             => /\ pc'[p] = "idle" /\ result'[p] = "fatal"
                /\ <<natChains, natOutput, natPrerouting, mangleOutput>>'
                   = <<natChains, natOutput, natPrerouting, mangleOutput>>]_vars
    /\ [][\A p \in Procs :
             result[p] = "fatal" => (pc[p] = "idle" /\ ncmd'[p] <= ncmd[p])]_vars

\* setup_firewall failed in the middle of the chain body, which is left
\* partially populated behind both entry rules
C15_Witness ==
    \E p \in Procs :
        /\ pc[p] = "idle" /\ call[p] = "setup" /\ result[p] = "fatal"
        /\ TheChain(p) \in DOMAIN natChains
        /\ Len(natChains[TheChain(p)]) = 2
        /\ JumpCount(natOutput, TheChain(p)) = 1
        /\ JumpCount(natPrerouting, TheChain(p)) = 1

IsDnsRule(r) == r.proto = "udp" /\ r.dports = <<53, 53>>

\* C16: the chain of a successful setup_firewall holds a DNS REDIRECT rule
\* (dest <ip>/32, udp, dport 53, to dnsport) for exactly the nameserver
\* entries whose family is the family of the call, in list order; an entry
\* of another family has no rule in the chain.
C16_DnsRulesForFamilyOnly ==
    \A p \in Procs :
        SetupDone(p) =>
            LET ch == natChains[TheChain(p)]
                OfFamily(ns) == ns[1] = family[p]
                want == SelectSeq(policy[p].nslist, OfFamily)
                dns == SelectSeq(ch, IsDnsRule)
            IN /\ Len(dns) = Len(want)
               /\ \A i \in 1..Len(want) :
                     /\ dns[i].target = "REDIRECT"
                     /\ dns[i].dest = <<want[i][2], HostWidth>>
                     /\ dns[i].toPorts = policy[p].dnsport
               /\ \A n \in 1..Len(policy[p].nslist) :
                     policy[p].nslist[n][1] # family[p] =>
                        \A i \in 1..Len(ch) :
                           ch[i].dest # <<policy[p].nslist[n][2], HostWidth>>

\* a list with an IPv6 entry between two IPv4 entries has been compiled
C16_Witness ==
    \E p \in Procs :
        /\ SetupDone(p)
        /\ Len(policy[p].nslist) = 3
        /\ policy[p].nslist[2][1] = AF_INET6
        /\ Len(SelectSeq(natChains[TheChain(p)], IsDnsRule)) = 2

\* the rules of a chain compiled from subnet entry s (by network and action)
RulesOf(ch, s) ==
    {i \in 1..Len(ch) :
        /\ ch[i].dest = <<s[4], s[2]>>
        /\ ch[i].target = (IF s[3] THEN "RETURN" ELSE "REDIRECT")
        /\ ch[i].toPorts = (IF s[3] THEN 0 ELSE s[7])}

\* C17: the rule compiled from a subnet entry, exclude or include, matches
\* TCP only and carries the port range firstPort:lastPort if and only if
\* firstPort is nonzero: with firstPort = 0 (whatever lastPort) it matches
\* TCP packets to the network on every port, otherwise only those with a
\* destination port in firstPort..lastPort.
C17_TcpOnlyPortRangeIffFirstPort ==
    \A p \in Procs :
        SetupDone(p) =>
            LET ch == natChains[TheChain(p)]
            IN \A j \in 1..Len(policy[p].subnets) :
                  LET s == policy[p].subnets[j] \o <<policy[p].port>>
                  IN /\ RulesOf(ch, s) # {}
                     /\ \A i \in RulesOf(ch, s) :
                           /\ ch[i].proto = "tcp"
                           /\ (ch[i].dports # <<>>) <=> (s[5] # 0)
                           /\ s[5] # 0 => ch[i].dports = <<s[5], s[6]>>
                           /\ \A pkt \in Packets :
                                 Covers(<<s[4], s[2]>>, pkt.dst) =>
                                    (Matches(ch[i], pkt) <=>
                                       /\ pkt.proto = "tcp"
                                       /\ (s[5] = 0
                                           \/ pkt.dport \in s[5]..s[6]))

\* an exclude entry with a port range and an include entry without one
C17_Witness ==
    \E p \in Procs :
        /\ SetupDone(p)
        /\ \E j, k \in 1..Len(policy[p].subnets) :
              /\ policy[p].subnets[j][3] /\ policy[p].subnets[j][5] = 1000
              /\ ~policy[p].subnets[k][3] /\ policy[p].subnets[k][5] = 0
        /\ \E i \in 1..Len(natChains[TheChain(p)]) :
              natChains[TheChain(p)][i].dports = <<1000, 2000>>

\* the entry rule of a comes before the entry rule of b in the list
Before(list, a, b) ==
    JumpIndex(list, TheChain(a)) < JumpIndex(list, TheChain(b))

\* C18 as stated: once two concurrent setups for different ports have both
\* returned, their entry rules are in the same relative order in nat OUTPUT
\* and in nat PREROUTING.
C18_Original ==
    \A a \in Procs : \A b \in Procs \ {a} :
        (SetupDone(a) /\ SetupDone(b)) =>
            (Before(natOutput, a, b) <=> Before(natPrerouting, a, b))

\* C18: once the setups of two instances with different ports have both
\* returned, nat OUTPUT and nat PREROUTING each hold one entry rule per
\* instance; the two lists order the instances alike when one setup started
\* after the other had returned (the later one first), while setups whose
\* commands interleave may leave the two lists in different orders.
C18_SameOrderWhenSequential ==
    \A a \in Procs : \A b \in Procs \ {a} :
        (SetupDone(a) /\ SetupDone(b)) =>
            /\ JumpCount(natOutput, TheChain(a)) = 1
            /\ JumpCount(natPrerouting, TheChain(a)) = 1
            /\ a \in since[b] =>
                  /\ Before(natOutput, b, a)
                  /\ Before(natOutput, a, b) <=> Before(natPrerouting, a, b)

\* b's setup ran after a's had returned: b is first in both lists
C18_Witness ==
    \E a \in Procs : \E b \in Procs \ {a} :
        /\ SetupDone(a) /\ SetupDone(b) /\ a \in since[b]
        /\ Before(natOutput, b, a) /\ Before(natPrerouting, b, a)

\* the entry rules of instance p in a built-in list
EntriesOf(list, p) ==
    {list[k] : k \in {i \in 1..Len(list) : list[i].jump = TheChain(p)}}

\* the commands instance p can ever issue
AllCmds(p) ==
    LET r == RestoreCmds(policy[p])
        t == SetupCmds(policy[p], AF_INET)
    IN  {r[i] : i \in 1..Len(r)} \cup {t[i] : i \in 1..Len(t)}

\* C19: after a call of setup_firewall or restore_firewall for one port and
\* one fixed user value has returned successfully, a MARK rule (uid-owner
\* user, set-mark port) is in mangle OUTPUT if and only if user is set and
\* the chain sshuttle-<port> is installed; with user unset no command is
\* issued against the mangle table and the entry rules carry no mark match,
\* with user set every entry rule matches on mark == port.
C19_MarkIffUserAndChain ==
    /\ [](\A p \in Procs :
            /\ (pc[p] = "idle" /\ result[p] = "ok") =>
                  (MarkCount(mangleOutput, policy[p].port) > 0
                   <=> (policy[p].user # None
                        /\ TheChain(p) \in DOMAIN natChains))
            /\ \A m \in 1..Len(mangleOutput) :
                  mangleOutput[m].setmark = policy[p].port =>
                     (policy[p].user # None
                      /\ mangleOutput[m].uid = policy[p].user[1])
            /\ \A e \in EntriesOf(natOutput, p) \cup EntriesOf(natPrerouting, p) :
                  e.mark = (IF policy[p].user # None
                            THEN <<policy[p].port>> ELSE <<>>)
            /\ policy[p].user = None =>
                  \A c \in AllCmds(p) : c.table # "mangle")
    /\ [][\A p \in Procs :
             (policy[p].user = None /\ Issues(p) /\ pc[p] # "idle")
             => mangleOutput' = mangleOutput]_vars

\* installed with a user: one MARK rule and two entry rules matching the mark
C19_Witness ==
    \E p \in Procs :
        /\ SetupDone(p) /\ prev[p][1] = "restore" /\ prev[p][2] = "ok"
        /\ policy[p].user # None
        /\ MarkCount(mangleOutput, policy[p].port) = 1
        /\ natOutput = <<[mark |-> <<policy[p].port>>, jump |-> TheChain(p)]>>
        /\ natPrerouting = natOutput

\* the positions of the commands of a list that satisfy a test
Positions(cmds, Test(_)) == {i \in 1..Len(cmds) : Test(cmds[i])}

\* C20: in every reachable state, interruptions between two commands and
\* swallowed failures included, a rule of nat OUTPUT or nat PREROUTING that
\* jumps to sshuttle-<port> exists only while the chain exists;
\* setup_firewall creates the chain before it inserts the entry rules and
\* restore_firewall removes the entry rules before it deletes the chain.
C20_NoDanglingJump ==
    \A p \in Procs :
        /\ (JumpCount(natOutput, TheChain(p)) > 0
            \/ JumpCount(natPrerouting, TheChain(p)) > 0)
           => TheChain(p) \in DOMAIN natChains
        /\ LET t == SetupCmds(policy[p], AF_INET)
               r == RestoreCmds(policy[p])
               IsNew(c) == c.op = "N" /\ c.chain = TheChain(p)
               IsEntry(c) == /\ c.op \in {"I", "A"} /\ c.table = "nat"
                             /\ c.builtin \in {"OUTPUT", "PREROUTING"}
               IsDelOut(c) == /\ c.op = "D" /\ c.table = "nat"
                              /\ c.builtin = "OUTPUT"
               IsDelPre(c) == /\ c.op = "D" /\ c.table = "nat"
                              /\ c.builtin = "PREROUTING"
               IsDrop(c) == c.op = "X" /\ c.chain = TheChain(p)
           IN /\ Positions(t, IsNew) # {}
              /\ Cardinality(Positions(t, IsEntry)) = 2
              /\ \A i \in Positions(t, IsEntry) :
                    \E n \in Positions(t, IsNew) : n < i
              /\ Positions(r, IsDrop) # {}
              /\ \A x \in Positions(r, IsDrop) :
                    /\ \E d \in Positions(r, IsDelOut) : d < x
                    /\ \E d \in Positions(r, IsDelPre) : d < x

\* a removal failed and was swallowed, so the chain deletion failed: the
\* entry rule that stayed still has its chain
C20_Witness ==
    \E p \in Procs :
        /\ pc[p] = "idle" /\ call[p] = "restore" /\ result[p] = "fatal"
        /\ JumpCount(natOutput, TheChain(p)) = 1
        /\ JumpCount(natPrerouting, TheChain(p)) = 0
        /\ TheChain(p) \in DOMAIN natChains

====
